---------------------------- MODULE Spec2Model ----------------------------
(***************************************************************************)
(* Model of the WhatsApp Web message extractor (src/main.py).              *)
(*                                                                         *)
(* Text is modelled as sequences of one-character strings, so that         *)
(* str.strip, ' '.join and the metadata regular expression are computed    *)
(* character by character, as the code computes them.                      *)
(*                                                                         *)
(* The browser (selenium WebDriver) is outside the repository.  Every call *)
(* on it either returns what the page holds or raises one of selenium's    *)
(* exception classes.  Several calls of main.py hand the whole SELECTORS   *)
(* list to a locator argument typed str (lines 277, 287, 361, 390, 394,    *)
(* 406, 417); what the binding does with such an argument is outside the   *)
(* locator contract, so both outcomes are kept: rejectsListLocator = TRUE  *)
(* (the call raises InvalidArgumentException) and FALSE (the lookup is     *)
(* carried out on the page).                                               *)
(***************************************************************************)
EXTENDS Integers, Sequences, FiniteSets, TLC

---------------------------------------------------------------------------
(* Text helpers                                                            *)

\* Characters str.strip() removes and \s matches.
Whitespace == {" ", "\t", "\n"}

Digits == {"0", "1", "2", "3", "4", "5", "6", "7", "8", "9"}

\* The empty str ''.
EmptyStr == << >>

\* s[i], or a sentinel past the end of s.
At(s, i) == IF i >= 1 /\ i <= Len(s) THEN s[i] ELSE "<end>"

\* s[i..j] of Python's s[i-1:j].
Slice(s, i, j) == IF j < i THEN EmptyStr ELSE SubSeq(s, i, j)

RECURSIVE LStrip(_)
LStrip(s) ==
    IF s # EmptyStr /\ Head(s) \in Whitespace THEN LStrip(Tail(s)) ELSE s

RECURSIVE RStrip(_)
RStrip(s) ==
    IF s # EmptyStr /\ s[Len(s)] \in Whitespace
    THEN RStrip(SubSeq(s, 1, Len(s) - 1))
    ELSE s

\* str.strip()
Strip(s) == RStrip(LStrip(s))

\* ' '.join(parts)
RECURSIVE JoinSpace(_)
JoinSpace(parts) ==
    IF parts = << >> THEN EmptyStr
    ELSE IF Len(parts) = 1 THEN parts[1]
    ELSE parts[1] \o <<" ">> \o JoinSpace(Tail(parts))

\* [e.text.strip() for e in elems if e.text.strip()]
RECURSIVE StrippedNonEmpty(_)
StrippedNonEmpty(elems) ==
    IF elems = << >> THEN << >>
    ELSE LET t == Strip(Head(elems))
         IN  IF t # EmptyStr
             THEN <<t>> \o StrippedNonEmpty(Tail(elems))
             ELSE StrippedNonEmpty(Tail(elems))

---------------------------------------------------------------------------
(* The metadata pattern of parse_message, matched as re.match matches it:  *)
(*   \[(\d{1,2}:\d{2}(?::\d{2})?),\s*(\d{1,2}/\d{1,2}/\d{4})\]\s*(.+?):    *)

\* Number of digits of s starting at i, at most max (a greedy \d{1,max}).
RECURSIVE DigitRun(_, _, _)
DigitRun(s, i, max) ==
    IF max = 0 \/ At(s, i) \notin Digits THEN 0
    ELSE 1 + DigitRun(s, i + 1, max - 1)

\* Number of whitespace characters of s starting at i (a greedy \s*).
RECURSIVE SpaceRun(_, _)
SpaceRun(s, i) ==
    IF At(s, i) \notin Whitespace THEN 0 ELSE 1 + SpaceRun(s, i + 1)

\* (.+?): from position p: the least q > p with s[q] = ":" and no newline in
\* s[p..q-1] ('.' does not match a newline); 0 when there is none.
LazyColon(s, p) ==
    LET ok == {q \in (p + 1)..Len(s) :
                 /\ s[q] = ":"
                 /\ \A k \in p..(q - 1) : s[k] # "\n"}
    IN  IF ok = {} THEN 0 ELSE CHOOSE q \in ok : \A r \in ok : q <= r

NoMatch == [matched |-> FALSE, time |-> EmptyStr, date |-> EmptyStr, sender |-> EmptyStr]

\* The pattern is matched left to right; each operator below matches one piece
\* and hands the positions reached to the next.

\* (.+?): with the sender starting at p (after k of the blanks that follow ']').
MatchSender(s, tEnd, d0, br, p) ==
    [matched |-> TRUE,
     time    |-> Slice(s, 2, tEnd - 1),
     date    |-> Slice(s, d0, br - 1),
     sender  |-> Slice(s, p, LazyColon(s, p) - 1)]

\* \s*(.+?): the blanks are matched greedily and given back one by one until
\* the rest matches; ks: the numbers of blanks with which it does.
MatchBlanks(s, tEnd, d0, br, ks) ==
    IF ks = {} THEN NoMatch
    ELSE MatchSender(s, tEnd, d0, br, br + 1 + (CHOOSE x \in ks : \A y \in ks : y <= x))

\* \d{4}\] with the year starting at y.
MatchYear(s, tEnd, d0, y) ==
    IF DigitRun(s, y, 4) = 4 /\ At(s, y + 4) = "]"
    THEN MatchBlanks(s, tEnd, d0, y + 4,
                     {k \in 0..SpaceRun(s, y + 5) : LazyColon(s, y + 5 + k) # 0})
    ELSE NoMatch

\* \d{1,2}/ with the day starting at d, dy its digits.
MatchDay(s, tEnd, d0, d, dy) ==
    IF dy >= 1 /\ At(s, d + dy) = "/"
    THEN MatchYear(s, tEnd, d0, d + dy + 1)
    ELSE NoMatch

\* \d{1,2}/ with the month starting at d0, mo its digits.
MatchMonth(s, tEnd, d0, mo) ==
    IF mo >= 1 /\ At(s, d0 + mo) = "/"
    THEN MatchDay(s, tEnd, d0, d0 + mo + 1, DigitRun(s, d0 + mo + 1, 2))
    ELSE NoMatch

\* ,\s* with the time ending before tEnd; d0: where the date starts.
MatchDate(s, tEnd, d0) == MatchMonth(s, tEnd, d0, DigitRun(s, d0, 2))

MatchComma(s, tEnd) ==
    IF At(s, tEnd) = ","
    THEN MatchDate(s, tEnd, tEnd + 1 + SpaceRun(s, tEnd + 1))
    ELSE NoMatch

\* (?::\d{2})? at q: taken when it matches (then ',' must follow it).
MatchSeconds(s, q) ==
    MatchComma(s, IF At(s, q) = ":" /\ DigitRun(s, q + 1, 2) = 2 THEN q + 3 ELSE q)

\* :\d{2} with the ':' at c.
MatchMinutes(s, c) ==
    IF At(s, c) = ":" /\ DigitRun(s, c + 1, 2) = 2
    THEN MatchSeconds(s, c + 3)
    ELSE NoMatch

\* \d{1,2} with h digits of the hour.
MatchHour(s, h) == IF h >= 1 THEN MatchMinutes(s, 2 + h) ELSE NoMatch

\* re.match(pattern, metadata): the three groups, or no match.
MatchMetadata(s) ==
    IF At(s, 1) = "[" THEN MatchHour(s, DigitRun(s, 2, 2)) ELSE NoMatch

---------------------------------------------------------------------------
(* String literals of main.py, as character sequences                      *)

Me == <<"M", "e">>
Unknown == <<"U", "n", "k", "n", "o", "w", "n">>
UnknownChat == <<"U", "n", "k", "n", "o", "w", "n", " ", "C", "h", "a", "t">>

\* Python's None, as parse_message returns it.
None == [kind |-> "None"]

---------------------------------------------------------------------------
(* parse_message                                                           *)
(*                                                                         *)
(* A message container, as the four lookups of parse_message see it:       *)
(*   stale  the element reference is stale: every call on it raises        *)
(*   media  find_elements(media_elements): raises, or n elements           *)
(*   meta   find_elements(message_metadata) and get_attribute on the first *)
(*          element: raises, no element, element without the attribute     *)
(*          (None), or the attribute's value                               *)
(*   text   find_elements(message_text) and .text of each: raises, or the  *)
(*          texts in DOM order                                             *)
(*   cls    get_attribute('class'): raises, None, or the class names       *)
(*   label  find_elements(message_sender) and .text of the first: raises,  *)
(*          no element, or the label text                                  *)

\* A MessageRecord (the dict parse_message builds).
MessageRecord(chat_name, sender, text, timestamp, has_media) ==
    [kind       |-> "record",
     chat_name  |-> chat_name,
     sender     |-> sender,
     text       |-> text,
     timestamp  |-> timestamp,
     has_media  |-> has_media]

\* f"{date_str} {time_str}"
Timestamp(date_str, time_str) == date_str \o <<" ">> \o time_str

\* 'message-out' in container.get_attribute('class')
IsOutgoing(cls) == "message-out" \in cls.classes

\* Lines 400-403: the fields taken from the match object.
FromMatch(match) ==
    IF match.matched
    THEN <<Timestamp(match.date, match.time), Strip(match.sender)>>
    ELSE <<EmptyStr, EmptyStr>>

\* Lines 393-403: <<timestamp, sender>> as the metadata gives them.
ParseMetadata(meta) ==
    IF meta.kind = "value" /\ meta.val # EmptyStr
    THEN FromMatch(MatchMetadata(meta.val))
    ELSE <<EmptyStr, EmptyStr>>

\* ' '.join([elem.text.strip() for elem in text_elements if elem.text.strip()])
MessageText(text) ==
    IF text.elems # << >> THEN JoinSpace(StrippedNonEmpty(text.elems)) ELSE EmptyStr

\* Whether some call inside the try block of parse_message raises.  rejects:
\* the driver rejects the list-valued locators of lines 390, 394, 406, 417;
\* sender: the sender the metadata gave.
ParseRaises(container, rejects, sender) ==
    \/ container.stale
    \/ rejects
    \/ container.media.kind = "raise"
    \/ container.meta.kind = "raise"
    \/ container.text.kind = "raise"
    \/ /\ sender = EmptyStr
       /\ \/ container.cls.kind \in {"raise", "null"}
          \/ /\ ~IsOutgoing(container.cls)
             /\ container.label.kind = "raise"

\* Lines 410-421: the sender when the metadata gave none.
InferSender(container) ==
    IF IsOutgoing(container.cls) THEN Me
    ELSE IF container.label.kind = "value" THEN Strip(container.label.val)
    ELSE Unknown

\* parse_message once the metadata step gave md = <<timestamp, sender>>.
ParseWith(container, chat_name, rejects, md) ==
    IF ParseRaises(container, rejects, md[2]) THEN None   \* except Exception: return None
    ELSE MessageRecord(chat_name,
                       IF md[2] # EmptyStr THEN md[2] ELSE InferSender(container),
                       MessageText(container.text), md[1], container.media.n > 0)

parse_message(container, chat_name, rejects) ==
    ParseWith(container, chat_name, rejects, ParseMetadata(container.meta))

---------------------------------------------------------------------------
(* Inputs of the parser checks                                             *)

Alex == <<"A", "l", "e", "x">>
BoC == <<"B", "o", " ", "C">>
Hello == <<"h", "e", "l", "l", "o">>
Ok == <<"o", "k">>
TeamA == <<"T", "e", "a", "m", " ", "A">>

Times == {<<"1", "0", ":", "1", "5">>, <<"9", ":", "0", "5", ":", "3", "0">>}
AmPm == {EmptyStr, <<" ", "a", "m">>, <<" ", "P", "M">>}
Dates == {<<"3", "/", "4", "/", "2", "0", "2", "4">>,
          <<"1", "2", "/", "3", "1", "/", "2", "0", "2", "4">>}
Senders == {Alex, BoC}

\* "[<time><ampm>, <date>] <sender>:"
MetadataString(time, ampm, date, sender) ==
    <<"[">> \o time \o ampm \o <<",", " ">> \o date \o <<"]", " ">> \o sender \o <<":">>

FormedMetadata ==
    {MetadataString(t, a, d, s) : t \in Times, a \in AmPm, d \in Dates, s \in Senders}

MetaOutcomes ==
    {[kind |-> k, val |-> EmptyStr] : k \in {"raise", "absent", "noattr", "value"}}
    \cup {[kind |-> "value", val |-> v] : v \in FormedMetadata \cup {Hello}}

MediaOutcomes ==
    {[kind |-> "raise", n |-> 0], [kind |-> "ok", n |-> 0], [kind |-> "ok", n |-> 1]}

TextOutcomes ==
    {[kind |-> "raise", elems |-> << >>]}
    \cup {[kind |-> "ok", elems |-> e] :
            e \in {<< >>, <<Hello>>, <<Ok>>, <<<<" ", "o", "k", " ">>, <<" ">>, Hello>>}}

ClassOutcomes ==
    {[kind |-> "raise", classes |-> {}], [kind |-> "null", classes |-> {}],
     [kind |-> "value", classes |-> {"message-in"}],
     [kind |-> "value", classes |-> {"message-out", "focusable"}]}

LabelOutcomes ==
    {[kind |-> "raise", val |-> EmptyStr], [kind |-> "absent", val |-> EmptyStr],
     [kind |-> "value", val |-> BoC], [kind |-> "value", val |-> <<" ">>]}

Container(stale, media, meta, text, cls, label) ==
    [stale |-> stale, media |-> media, meta |-> meta, text |-> text,
     cls |-> cls, label |-> label]

\* A stale container: nothing on it can be read.
StaleContainer ==
    Container(TRUE, [kind |-> "raise", n |-> 0], [kind |-> "raise", val |-> EmptyStr],
              [kind |-> "raise", elems |-> << >>], [kind |-> "raise", classes |-> {}],
              [kind |-> "raise", val |-> EmptyStr])

Containers ==
    {StaleContainer}
    \cup {Container(FALSE, md, mt, tx, cl, lb) :
            md \in MediaOutcomes, mt \in MetaOutcomes, tx \in TextOutcomes,
            cl \in ClassOutcomes, lb \in LabelOutcomes}

---------------------------------------------------------------------------
(* find_chat_by_name                                                       *)
(*                                                                         *)
(* The search, as the page answers it:                                     *)
(*   box      lines 277-284 (wait for the search box, click, clear, type): *)
(*            "ok", or the exception class the first failing call raises   *)
(*   results  the entries find_elements(search_results) returns, each with *)
(*            text     its text                                            *)
(*            textExc  "ok", or the exception reading .text raises         *)
(*            click    "ok", or the exception click() raises               *)

\* except (ElementClickInterceptedException, NoSuchElementException): continue
InnerCaught == {"ElementClickInterceptedException", "NoSuchElementException"}

\* except (NoSuchElementException, TimeoutException) as e: return False
OuterCaught == {"NoSuchElementException", "TimeoutException"}

\* What a call returns to its caller: ret is "True", "False" or "raise" (with the
\* exception class in exc); clicked lists the entries click() was called on, in
\* order; opened is the entry whose click succeeded (0: none).
Returned(ret, clicked, opened) ==
    [ret |-> ret, exc |-> "none", clicked |-> clicked, opened |-> opened]

\* An exception raised inside the outer try block of find_chat_by_name.
RaisedInFind(e, clicked) ==
    IF e \in OuterCaught
    THEN Returned("False", clicked, 0)
    ELSE [ret |-> "raise", exc |-> e, clicked |-> clicked, opened |-> 0]

\* Lines 298-304: after the loop, click the first result if there is one.
ClickFirstResult(results, clicked) ==
    IF results # << >>
    THEN IF results[1].click = "ok"
         THEN Returned("True", Append(clicked, 1), 1)
         ELSE RaisedInFind(results[1].click, Append(clicked, 1))
    ELSE Returned("False", clicked, 0)

\* Lines 288-296: the loop over the results, from entry i on.
RECURSIVE ScanResults(_, _, _, _)
ScanResults(results, chat_name, i, clicked) ==
    IF i > Len(results) THEN ClickFirstResult(results, clicked)
    ELSE LET result == results[i]
         IN  IF result.textExc # "ok"
             THEN IF result.textExc \in InnerCaught
                  THEN ScanResults(results, chat_name, i + 1, clicked)
                  ELSE RaisedInFind(result.textExc, clicked)
             ELSE IF Strip(result.text) = chat_name
             THEN IF result.click = "ok"
                  THEN Returned("True", Append(clicked, i), i)
                  ELSE IF result.click \in InnerCaught
                  THEN ScanResults(results, chat_name, i + 1, Append(clicked, i))
                  ELSE RaisedInFind(result.click, Append(clicked, i))
             ELSE ScanResults(results, chat_name, i + 1, clicked)

find_chat_by_name(search, chat_name, rejects) ==
    IF rejects
    THEN RaisedInFind("InvalidArgumentException", << >>)   \* line 277: locator is a list
    ELSE IF search.box # "ok"
    THEN RaisedInFind(search.box, << >>)
    ELSE ScanResults(search.results, chat_name, 1, << >>)

---------------------------------------------------------------------------
(* Inputs of the chat-opener checks                                        *)

MaxResults == 2

\* Another chat whose name starts with the name searched for.
Extended(name) == name \o <<" ", "E", "x", "t", "e", "n", "d", "e", "d">>
TeamAExtended == Extended(TeamA)

ResultTexts == {TeamA, TeamAExtended, <<" ">> \o TeamA \o <<"\n">>}

ClickOutcomes ==
    {"ok", "ElementClickInterceptedException", "NoSuchElementException",
     "StaleElementReferenceException"}

BoxOutcomes ==
    {"ok", "TimeoutException", "NoSuchElementException",
     "ElementClickInterceptedException"}

ResultEntries ==
    {[text |-> t, textExc |-> "ok", click |-> c] : t \in ResultTexts, c \in ClickOutcomes}
    \cup {[text |-> EmptyStr, textExc |-> e, click |-> c] :
            e \in {"StaleElementReferenceException", "NoSuchElementException"},
            c \in ClickOutcomes}

\* Sequences over S of length at most n.
SeqsUpTo(S, n) == UNION {[1..k -> S] : k \in 0..n}

SearchOutcomes ==
    {[box |-> b, results |-> r] :
        b \in BoxOutcomes, r \in SeqsUpTo(ResultEntries, MaxResults)}

---------------------------------------------------------------------------
(* find_element_with_fallbacks and get_chat_title                          *)
(*                                                                         *)
(* lookups: for each selector of the logical name, in declared order, what *)
(* find_elements answers: exc is "ok" or the exception raised, elems the   *)
(* elements found, each with displayed ("yes", "no", or "raise" when       *)
(* is_displayed() raises), its text and textExc ("ok" or the exception     *)
(* reading .text raises).                                                  *)

Element(displayed, text, textExc) ==
    [displayed |-> displayed, text |-> text, textExc |-> textExc]

NoElement == Element("no", EmptyStr, "ok")

\* Lines 133-142, from selector i on: the element returned (found = FALSE for
\* None) and the number of selectors evaluated.
RECURSIVE ResolveFrom(_, _)
ResolveFrom(lookups, i) ==
    IF i > Len(lookups) THEN [found |-> FALSE, elem |-> NoElement, evaluated |-> i - 1]
    ELSE LET l == lookups[i]
         IN  IF /\ l.exc = "ok"
                /\ l.elems # << >>
                /\ l.elems[1].displayed = "yes"
             THEN [found |-> TRUE, elem |-> l.elems[1], evaluated |-> i]
             ELSE ResolveFrom(lookups, i + 1)

find_element_with_fallbacks(lookups) == ResolveFrom(lookups, 1)

\* Lines 314-319, with what find_element_with_fallbacks returned.
TitleOf(title_element) ==
    IF title_element.found /\ title_element.elem.textExc = "ok"
    THEN Strip(title_element.elem.text)
    ELSE UnknownChat

get_chat_title(lookups) == TitleOf(find_element_with_fallbacks(lookups))

---------------------------------------------------------------------------
(* get_all_visible_chats                                                   *)
(*                                                                         *)
(* The chat list, as the page answers: container ("found" or "none": the   *)
(* result of find_element_with_fallbacks('chat_list_container')), scroll   *)
(* ("ok" or the exception execute_script raises), rows (what               *)
(* find_elements_with_fallbacks('chat_list_rows') returns: each row        *)
(* "titled" with its title attribute, "untitled", or "raise" when the      *)
(* lookup inside the row raises).                                          *)

InSeq(x, s) == \E i \in 1..Len(s) : s[i] = x

\* Lines 334-344: the loop over the rows.
RECURSIVE CollectNames(_, _)
CollectNames(rows, chat_names) ==
    IF rows = << >> THEN chat_names
    ELSE LET row == Head(rows)
         IN  IF /\ row.kind = "titled"
                /\ row.title # EmptyStr
                /\ ~InSeq(row.title, chat_names)
             THEN CollectNames(Tail(rows), Append(chat_names, row.title))
             ELSE CollectNames(Tail(rows), chat_names)

\* Lines 325-328: the scripts get_all_visible_chats runs on the chat list
\* container: one, when the container is found, that puts it at the top.
ScrollToTop == "arguments[0].scrollTop = 0;"
ScriptsRun(list) == IF list.container = "found" THEN <<ScrollToTop>> ELSE << >>

get_all_visible_chats(list) ==
    IF list.container = "found" /\ list.scroll # "ok"
    THEN << >>                                  \* except Exception: return []
    ELSE CollectNames(list.rows, << >>)

---------------------------------------------------------------------------
(* extract_messages_from_chat                                              *)
(*                                                                         *)
(* The open chat's message pane: lookup is "ok" or the exception           *)
(* find_elements(message_container) raises, containers the message         *)
(* containers in DOM order.                                                *)

\* Lines 366-367: if message_data: messages.append(message_data)
KeepRecord(message_data, rest) ==
    IF message_data # None THEN <<message_data>> \o rest ELSE rest

\* Lines 363-370: parse each container, keep what is not None.
RECURSIVE ParseAll(_, _, _)
ParseAll(containers, chat_name, rejects) ==
    IF containers = << >> THEN << >>
    ELSE KeepRecord(parse_message(Head(containers), chat_name, rejects),
                    ParseAll(Tail(containers), chat_name, rejects))

\* exc: "none", or the exception that leaves the function.
extract_messages_from_chat(pane, chat_name, rejects) ==
    IF rejects
    THEN [exc |-> "InvalidArgumentException", messages |-> << >>]  \* line 361
    ELSE IF pane.lookup = "NoSuchElementException"
    THEN [exc |-> "none", messages |-> << >>]
    ELSE IF pane.lookup # "ok"
    THEN [exc |-> pane.lookup, messages |-> << >>]
    ELSE [exc |-> "none",
          messages |-> ParseAll(pane.containers, chat_name, rejects)]

---------------------------------------------------------------------------
(* The orchestrator's own steps                                            *)

Min(a, b) == IF a <= b THEN a ELSE b
Max(a, b) == IF a >= b THEN a ELSE b

\* chat_names[:n]
SliceTo(s, n) ==
    IF n >= 0 THEN SubSeq(s, 1, Min(n, Len(s)))
    ELSE SubSeq(s, 1, Max(Len(s) + n, 0))

\* --max-chats: absent (None), or an int.
NoMaxChats == [given |-> FALSE, n |-> 0]
MaxChats(n) == [given |-> TRUE, n |-> n]

\* Lines 503-504: if max_chats: chat_names = chat_names[:max_chats]
Truncate(chat_names, max_chats) ==
    IF max_chats.given /\ max_chats.n # 0
    THEN SliceTo(chat_names, max_chats.n)
    ELSE chat_names

\* The name handed to extract_messages_from_chat (lines 475 and 517): the
\* title read back from the open chat, not the name searched for.
StampWithRequestedName(requested, actual_chat_name) == requested
StampName(requested, actual_chat_name) == actual_chat_name

\* Lines 530-532: where the batch loop goes on after a chat that failed
\* (continue: the next chat of the list).
AbortBatchOnFailure(idx, chat_names) == Len(chat_names) + 1
NextAfterFailure(idx, chat_names) == idx + 1

\* Line 567: if self.driver and not debug
QuitOnlyInDebug(driver, debug) == driver = "open" /\ debug
RunFinallyQuits(driver, debug) == driver = "open" /\ ~debug

\* Line 600: if not args.debug and extractor.driver
MainFinallyQuits(debug, driver) == ~debug /\ driver = "open"

---------------------------------------------------------------------------
(* Inputs of a run of main()                                               *)

MaxMessages == 2

Family == <<"F", "a", "m", "i", "l", "y">>

Entry(text, click) == [text |-> text, textExc |-> "ok", click |-> click]

\* What the page may answer when chat_name is searched for.
RunSearches(chat_name) ==
    {[box |-> "ok", results |-> <<Entry(chat_name, "ok")>>],
     [box |-> "ok", results |-> <<Entry(Extended(chat_name), "ok"),
                                  Entry(chat_name, "ElementClickInterceptedException")>>],
     [box |-> "ok", results |-> <<Entry(Extended(chat_name), "ok")>>],
     [box |-> "ok", results |-> << >>],
     [box |-> "ok", results |-> <<Entry(chat_name, "StaleElementReferenceException")>>],
     [box |-> "TimeoutException", results |-> << >>]}

\* The title of the chat a successful find_chat_by_name opened.
OpenedTitle(s, f) == Strip(s.results[f.opened].text)

Lookup(exc, elems) == [exc |-> exc, elems |-> elems]
NothingFound == Lookup("ok", << >>)

\* What the three chat_title selectors answer while the chat titled title is
\* open, by kind of answer.
Header(kind, title) ==
    IF kind = "shown"
    THEN <<Lookup("ok", <<Element("yes", <<" ">> \o title \o <<" ">>, "ok")>>),
           NothingFound, NothingFound>>
    ELSE IF kind = "third_selector"
    THEN <<Lookup("StaleElementReferenceException", << >>),
           Lookup("ok", <<Element("no", Family, "ok")>>),
           Lookup("ok", <<Element("yes", title, "ok")>>)>>
    ELSE IF kind = "blank"
    THEN <<Lookup("ok", <<Element("yes", <<" ">>, "ok")>>), NothingFound, NothingFound>>
    ELSE IF kind = "text_raises"
    THEN <<Lookup("ok", <<Element("yes", title, "StaleElementReferenceException")>>),
           NothingFound, NothingFound>>
    ELSE <<NothingFound, NothingFound, NothingFound>>

RunHeaders == {"shown", "third_selector", "blank", "text_raises", "missing"}

Incoming ==
    Container(FALSE, [kind |-> "ok", n |-> 0],
              [kind |-> "value",
               val |-> MetadataString(<<"1", "0", ":", "1", "5">>, EmptyStr,
                                      <<"3", "/", "4", "/", "2", "0", "2", "4">>, Alex)],
              [kind |-> "ok", elems |-> <<Hello>>],
              [kind |-> "value", classes |-> {"message-in"}],
              [kind |-> "absent", val |-> EmptyStr])

Outgoing ==
    Container(FALSE, [kind |-> "ok", n |-> 1],
              [kind |-> "absent", val |-> EmptyStr],
              [kind |-> "ok", elems |-> <<Ok>>],
              [kind |-> "value", classes |-> {"message-out", "focusable"}],
              [kind |-> "absent", val |-> EmptyStr])

RunContainers == {Incoming, Outgoing, StaleContainer}

RunPanes ==
    {[lookup |-> "ok", containers |-> cs] : cs \in SeqsUpTo(RunContainers, MaxMessages)}
    \cup {[lookup |-> e, containers |-> << >>] :
            e \in {"NoSuchElementException", "WebDriverException"}}

\* The same, for the chats of a batch: fewer answers per chat, several chats.
BatchSearches(chat_name) ==
    {[box |-> "ok", results |-> <<Entry(chat_name, "ok")>>],
     [box |-> "ok", results |-> <<Entry(Extended(chat_name), "ok"),
                                  Entry(chat_name, "ElementClickInterceptedException")>>],
     [box |-> "ok", results |-> << >>],
     [box |-> "ok", results |-> <<Entry(chat_name, "StaleElementReferenceException")>>]}

BatchHeaders == {"shown", "missing"}

BatchPanes ==
    {[lookup |-> "ok", containers |-> cs] :
        cs \in SeqsUpTo({Incoming, StaleContainer}, MaxMessages)}
    \cup {[lookup |-> "WebDriverException", containers |-> << >>]}

Row(title) == [kind |-> "titled", title |-> title]
RowWithout(kind) == [kind |-> kind, title |-> EmptyStr]

ChatList(container, scroll, rows) ==
    [container |-> container, scroll |-> scroll, rows |-> rows]

RunChatLists ==
    {ChatList("found", "ok", << >>),
     ChatList("none", "ok", <<Row(TeamA)>>),
     ChatList("found", "ok",
              <<Row(TeamA), RowWithout("raise"), Row(TeamA), RowWithout("untitled"),
                Row(EmptyStr), Row(Family)>>),
     ChatList("found", "ok", <<Row(TeamA), Row(Family), Row(Alex)>>),
     ChatList("found", "WebDriverException", <<Row(TeamA)>>)}

MaxChatsArgs == {NoMaxChats} \cup {MaxChats(n) : n \in -1..2}

---------------------------------------------------------------------------
(* sanitize_filename                                                       *)

\* The character class of line 453 with one character short: the backslash.
UnsafeButBackslash == {"<", ">", ":", "\"", "/", "|", "?", "*"}

\* The character class [<>:"/\\|?*] of line 453.
Unsafe == {"<", ">", ":", "\"", "/", "\\", "|", "?", "*"}

\* re.sub(r'[<>:"/\\|?*]', '_', filename): each character of the class is
\* replaced by '_', every other character is kept.
Substitute(c) == IF c \in Unsafe THEN "_" ELSE c

sanitize_filename(name) == [i \in 1..Len(name) |-> Substitute(name[i])]

---------------------------------------------------------------------------
(* One pass over a chat: lines 466-475 of extract_single_chat and lines    *)
(* 515-517 of extract_all_chats.                                           *)

\* What the pass gave: outcome is "extracted", "not_found" (find_chat_by_name
\* returned False) or "error" (exc left the pass); opened is the title of the
\* chat opened, title what get_chat_title returned.
PassResult(outcome, opened, title, e, messages) ==
    [outcome |-> outcome, opened |-> opened, title |-> title, exc |-> e,
     messages |-> messages]

\* After extract_messages_from_chat returned or raised (r).
AfterExtract(opened, title, r) ==
    IF r.exc # "none"
    THEN PassResult("error", opened, title, r.exc, << >>)
    ELSE PassResult("extracted", opened, title, "none", r.messages)

\* After get_chat_title returned title.
AfterTitle(requested, opened, title, pane, rejects) ==
    AfterExtract(opened, title,
                 extract_messages_from_chat(pane, StampName(requested, title), rejects))

\* After find_chat_by_name returned or raised (f).
AfterFind(requested, s, f, header, pane, rejects) ==
    IF f.ret = "raise" THEN PassResult("error", EmptyStr, EmptyStr, f.exc, << >>)
    ELSE IF f.ret = "False" THEN PassResult("not_found", EmptyStr, EmptyStr, "none", << >>)
    ELSE AfterTitle(requested, OpenedTitle(s, f),
                    get_chat_title(Header(header, OpenedTitle(s, f))), pane, rejects)

OpenAndExtract(requested, s, header, pane, rejects) ==
    AfterFind(requested, s, find_chat_by_name(s, requested, rejects), header, pane,
              rejects)

\* What one pass over a chat did, as the history keeps it.
Pass(requested, o) ==
    [requested |-> requested, opened |-> o.opened, title |-> o.title,
     outcome |-> o.outcome, n |-> Len(o.messages)]

---------------------------------------------------------------------------
VARIABLES
    pc,                   \* position in the control flow
    rejectsListLocator,   \* the driver raises on a list-valued locator
    container,            \* parser check: the message container handed in
    parsed,               \* parser check: what parse_message returned
    search,               \* opener check: what the page answers to the search
    found,                \* opener check: what find_chat_by_name returned
    debug,                \* args.debug
    chat_arg,             \* args.chat ('' when absent)
    max_chats,            \* args.max_chats
    chat_list,            \* the chat list the page renders
    driver,               \* extractor.driver: "None" or "open"
    quitCalls,            \* number of driver.quit() calls so far
    confirmations,        \* number of "Press Enter" prompts the user answered
    exc,                  \* the exception in flight ("none": none)
    exitStatus,           \* the process's exit status (-1 while it runs)
    interrupted,          \* the user's Ctrl-C has been delivered
    fatal,                \* the session could not be created, or crashed
    chat_names,           \* extract_all_chats: the list iterated
    idx,                  \* extract_all_chats: the next chat of the list
    all_messages,         \* extract_all_chats: records accumulated
    processed_chats,      \* extract_all_chats: chats opened and extracted
    actual_chat_name,     \* the title read back in the last pass
    messages,             \* the records of the last pass
    passes,               \* history: one entry per chat attempted
    saved,                \* the records written to the output files
    lookups,              \* resolver check: what each selector's lookup answers
    resolved,             \* resolver check: what find_element_with_fallbacks returned
    pages,                \* enumerator check: the rows each scroll position adds
    enumerated,           \* enumerator check: what get_all_visible_chats returned
    scripts,              \* enumerator check: the scripts run on the chat list
    filename,             \* file-name check: the argument of sanitize_filename
    sanitized,            \* file-name check: what sanitize_filename returned
    byDefined,            \* iterate_chats: the name By is bound in scrape's globals
    it_at,                \* iterate_chats: the batch the chat list stands at
    chats,                \* iterate_chats: the rows found by line 16
    row,                  \* iterate_chats: the next row of chats
    seen,                 \* iterate_chats: titles seen
    results,              \* iterate_chats: the chats whose messages were added
    count,                \* iterate_chats: chats extracted
    clicked               \* iterate_chats: the titles clicked, in order

parseVars == <<container, parsed>>
findVars == <<search, found>>
argVars == <<rejectsListLocator, debug, chat_arg, max_chats, chat_list>>
sessionVars == <<driver, quitCalls, confirmations>>
batchVars == <<chat_names, idx, all_messages, processed_chats>>
passVars == <<actual_chat_name, messages, passes>>
runVars == <<debug, chat_arg, max_chats, chat_list, driver, quitCalls, confirmations,
             exc, exitStatus, interrupted, fatal, chat_names, idx, all_messages,
             processed_chats, actual_chat_name, messages, passes, saved>>
resolveVars == <<lookups, resolved>>
enumVars == <<pages, enumerated, scripts>>
sanitizeVars == <<filename, sanitized>>
iterateVars == <<byDefined, it_at, chats, row, seen, results, count, clicked>>
unitVars == <<resolveVars, enumVars, sanitizeVars, iterateVars>>
mainVars == <<rejectsListLocator, parseVars, findVars, runVars>>
vars == <<unitVars, pc, rejectsListLocator, container, parsed, search, found, debug, chat_arg,
          max_chats, chat_list, driver, quitCalls, confirmations, exc, exitStatus,
          interrupted, fatal, chat_names, idx, all_messages, processed_chats,
          actual_chat_name, messages, passes, saved>>

NoSearch == [box |-> "ok", results |-> << >>]
NotCalled == Returned("False", << >>, 0)

\* The state of main() before extractor.run() is called.
RunIdle ==
    /\ driver = "None"
    /\ quitCalls = 0
    /\ confirmations = 0
    /\ exc = "none"
    /\ exitStatus = -1
    /\ interrupted = FALSE
    /\ fatal = FALSE
    /\ chat_names = << >>
    /\ idx = 1
    /\ all_messages = << >>
    /\ processed_chats = 0
    /\ actual_chat_name = EmptyStr
    /\ messages = << >>
    /\ passes = << >>
    /\ saved = << >>

\* The resolver check before its call.
ResolveIdle ==
    /\ lookups = << >>
    /\ resolved = ResolveFrom(<< >>, 1)

\* The enumerator check before its call.
EnumIdle ==
    /\ pages = << >>
    /\ enumerated = << >>
    /\ scripts = << >>

\* The file-name check before its call.
SanitizeIdle ==
    /\ filename = EmptyStr
    /\ sanitized = EmptyStr

\* iterate_chats before its call.
IterateIdle ==
    /\ byDefined = FALSE
    /\ it_at = 1
    /\ chats = << >>
    /\ row = 1
    /\ seen = {}
    /\ results = << >>
    /\ count = 0
    /\ clicked = << >>

UnitsIdle == ResolveIdle /\ EnumIdle /\ SanitizeIdle /\ IterateIdle

ChecksIdle ==
    /\ container = StaleContainer
    /\ parsed = None
    /\ search = NoSearch
    /\ found = NotCalled
    /\ UnitsIdle

\* The arguments and the page of a run, where a check of one function leaves
\* them.
ArgsIdle ==
    /\ rejectsListLocator = FALSE
    /\ debug = FALSE
    /\ chat_arg = TeamA
    /\ max_chats = NoMaxChats
    /\ chat_list = ChatList("found", "ok", << >>)

---------------------------------------------------------------------------
(* The parser on its own: one container in, one result out.                *)

InitParse ==
    /\ pc = "parse_call"
    /\ rejectsListLocator \in BOOLEAN
    /\ container \in Containers
    /\ parsed = None
    /\ search = NoSearch
    /\ found = NotCalled
    /\ debug = FALSE
    /\ chat_arg = TeamA
    /\ max_chats = NoMaxChats
    /\ chat_list = ChatList("found", "ok", << >>)
    /\ RunIdle
    /\ UnitsIdle

ParseMessage ==
    /\ pc = "parse_call"
    /\ parsed' = parse_message(container, chat_arg, rejectsListLocator)
    /\ pc' = "parse_done"
    /\ UNCHANGED <<unitVars, rejectsListLocator, container, findVars, runVars>>

NextParse == ParseMessage

SpecParse == InitParse /\ [][NextParse]_vars

---------------------------------------------------------------------------
(* The chat opener on its own: one search in, one result out.              *)

InitFind ==
    /\ pc = "find_call"
    /\ rejectsListLocator \in BOOLEAN
    /\ search \in SearchOutcomes
    /\ found = NotCalled
    /\ container = StaleContainer
    /\ parsed = None
    /\ debug = FALSE
    /\ chat_arg = TeamA
    /\ max_chats = NoMaxChats
    /\ chat_list = ChatList("found", "ok", << >>)
    /\ RunIdle
    /\ UnitsIdle

FindChatByName ==
    /\ pc = "find_call"
    /\ found' = find_chat_by_name(search, chat_arg, rejectsListLocator)
    /\ pc' = "find_done"
    /\ UNCHANGED <<unitVars, rejectsListLocator, search, parseVars, runVars>>

NextFind == FindChatByName

SpecFind == InitFind /\ [][NextFind]_vars

---------------------------------------------------------------------------
(* find_element_with_fallbacks on its own: the answers of one logical      *)
(* name's selectors in, the element (or None) out.                         *)

MaxSelectors == 3

\* What one selector's find_elements may answer: it raises, finds nothing,
\* finds one element (displayed, hidden, or gone stale before is_displayed()
\* answers), or finds a hidden element followed by a displayed one.
LookupOutcomes ==
    {Lookup("WebDriverException", << >>), NothingFound}
    \cup {Lookup("ok", <<Element(d, t, "ok")>>) :
            d \in {"yes", "no", "raise"}, t \in {TeamA, Family}}
    \cup {Lookup("ok", <<Element("no", TeamA, "ok"), Element("yes", Family, "ok")>>)}

InitResolve ==
    /\ pc = "resolve_call"
    /\ lookups \in SeqsUpTo(LookupOutcomes, MaxSelectors)
    /\ resolved = ResolveFrom(<< >>, 1)
    /\ EnumIdle
    /\ SanitizeIdle
    /\ IterateIdle
    /\ container = StaleContainer
    /\ parsed = None
    /\ search = NoSearch
    /\ found = NotCalled
    /\ ArgsIdle
    /\ RunIdle

FindElementWithFallbacks ==
    /\ pc = "resolve_call"
    /\ resolved' = find_element_with_fallbacks(lookups)
    /\ pc' = "resolve_done"
    /\ UNCHANGED <<lookups, enumVars, sanitizeVars, iterateVars, mainVars>>

NextResolve == FindElementWithFallbacks

SpecResolve == InitResolve /\ [][NextResolve]_vars

---------------------------------------------------------------------------
(* get_all_visible_chats on its own.  The chat list renders its rows in     *)
(* batches: pages[1] is what it shows at the top, pages[k + 1] the rows the *)
(* k-th scroll to the bottom adds (the list grows on that scroll); a scroll *)
(* past the last batch adds nothing.                                        *)

MaxBatches == 3

Batches ==
    {<<Row(TeamA)>>, <<Row(Family), Row(TeamA)>>, <<Row(Alex)>>,
     <<RowWithout("raise"), Row(BoC), RowWithout("untitled")>>}

\* The rows in the DOM while the list stands at the top.
RowsAtTop == IF pages = << >> THEN << >> ELSE pages[1]

InitEnum ==
    /\ pc = "enum_call"
    /\ pages \in SeqsUpTo(Batches, MaxBatches)
    /\ chat_list \in {ChatList(c, sc, RowsAtTop) :
                         c \in {"found", "none"}, sc \in {"ok", "WebDriverException"}}
    /\ enumerated = << >>
    /\ scripts = << >>
    /\ ResolveIdle
    /\ SanitizeIdle
    /\ IterateIdle
    /\ container = StaleContainer
    /\ parsed = None
    /\ search = NoSearch
    /\ found = NotCalled
    /\ rejectsListLocator = FALSE
    /\ debug = FALSE
    /\ chat_arg = EmptyStr
    /\ max_chats = NoMaxChats
    /\ RunIdle

GetAllVisibleChats ==
    /\ pc = "enum_call"
    /\ enumerated' = get_all_visible_chats(chat_list)
    /\ scripts' = ScriptsRun(chat_list)
    /\ pc' = "enum_done"
    /\ UNCHANGED <<pages, resolveVars, sanitizeVars, iterateVars, mainVars>>

NextEnum == GetAllVisibleChats

SpecEnum == InitEnum /\ [][NextEnum]_vars

---------------------------------------------------------------------------
(* sanitize_filename on its own: one name in, one name out.                *)

MaxName == 3

\* The characters of the names tried: the nine of the class, and three others.
NameChars == {"<", ">", ":", "\"", "/", "\\", "|", "?", "*", "a", "_", " "}

InitSanitize ==
    /\ pc = "sanitize_call"
    /\ filename \in SeqsUpTo(NameChars, MaxName)
    /\ sanitized = EmptyStr
    /\ ResolveIdle
    /\ EnumIdle
    /\ IterateIdle
    /\ container = StaleContainer
    /\ parsed = None
    /\ search = NoSearch
    /\ found = NotCalled
    /\ ArgsIdle
    /\ RunIdle

SanitizeFilename ==
    /\ pc = "sanitize_call"
    /\ sanitized' = sanitize_filename(filename)
    /\ pc' = "sanitize_done"
    /\ UNCHANGED <<filename, resolveVars, enumVars, iterateVars, mainVars>>

NextSanitize == SanitizeFilename

SpecSanitize == InitSanitize /\ [][NextSanitize]_vars

---------------------------------------------------------------------------
(* iterate_chats (src/automations/scrape.py).  The chat list is finite: it  *)
(* renders pages[it_at], and a scroll moves it one batch on until the last  *)
(* batch, which it then keeps rendering.  scrape.py imports the locator     *)
(* module under the name by and never binds By, the name lines 10, 16 and   *)
(* 21 read from the module's globals: the call gets past line 10 only in a  *)
(* program that has bound that name (byDefined).                            *)

\* What line 16 finds while the list stands at batch at.
Rendered(at) == IF pages = << >> THEN << >> ELSE pages[at]

\* Line 22: title_el.get_attribute("title") or title_el.text
TitleOfRow(r) == r.title

\* Line 33: if max_chats and count >= max_chats
CapReached(cap, n) == cap.given /\ cap.n # 0 /\ n >= cap.n

InitIterate ==
    /\ pc = "it_wait_panel"
    /\ byDefined \in BOOLEAN
    /\ pages \in SeqsUpTo(Batches, MaxBatches)
    /\ max_chats \in {NoMaxChats, MaxChats(0), MaxChats(1), MaxChats(2)}
    /\ it_at = 1
    /\ chats = << >>
    /\ row = 1
    /\ seen = {}
    /\ results = << >>
    /\ count = 0
    /\ clicked = << >>
    /\ enumerated = << >>
    /\ scripts = << >>
    /\ ResolveIdle
    /\ SanitizeIdle
    /\ container = StaleContainer
    /\ parsed = None
    /\ search = NoSearch
    /\ found = NotCalled
    /\ rejectsListLocator = FALSE
    /\ debug = FALSE
    /\ chat_arg = EmptyStr
    /\ chat_list = ChatList("found", "ok", << >>)
    /\ RunIdle

\* Lines 9-14: By.XPATH is evaluated first (NameError when By is unbound), then
\* the wait for the grid returns or times out.
WaitForPanel ==
    /\ pc = "it_wait_panel"
    /\ IF ~byDefined
       THEN pc' = "it_raised" /\ exc' = "NameError"
       ELSE \E panel \in {"present", "TimeoutException"} :
              IF panel = "present"
              THEN pc' = "it_find_rows" /\ UNCHANGED exc
              ELSE pc' = "it_raised" /\ exc' = panel
    /\ UNCHANGED <<unitVars, rejectsListLocator, parseVars, findVars, debug, chat_arg,
                   max_chats, chat_list, sessionVars, exitStatus, interrupted, fatal,
                   batchVars, passVars, saved>>

\* Lines 15-18: while True: find the rows; none: break, and line 40 returns.
FindRows ==
    /\ pc = "it_find_rows"
    /\ chats' = Rendered(it_at)
    /\ row' = 1
    /\ pc' = IF chats' = << >> THEN "it_returned" ELSE "it_rows"
    /\ UNCHANGED <<resolveVars, enumVars, sanitizeVars, byDefined, it_at, seen, results,
                   count, clicked, mainVars>>

\* Lines 19-36: one row of the for loop; after the last row, on to line 38.
IterateRow ==
    /\ pc = "it_rows"
    /\ row <= Len(chats)
    /\ LET c == chats[row]
           title == TitleOfRow(c)
           after == IF row = Len(chats) THEN "it_scroll" ELSE "it_rows"
       IN  IF c.kind = "raise" \/ title \in seen
           THEN /\ pc' = after                                \* lines 35-36, 23-24
                /\ UNCHANGED <<seen, results, count, clicked>>
           ELSE /\ seen' = seen \cup {title}
                /\ \E step \in {"extracted", "script_raises", "click_raises",
                                 "extract_raises"} :
                     /\ clicked' = IF step = "script_raises" THEN clicked
                                   ELSE Append(clicked, title)
                     /\ IF step = "extracted"
                        THEN /\ results' = Append(results, title)
                             /\ count' = count + 1
                             /\ pc' = IF CapReached(max_chats, count')
                                      THEN "it_returned" ELSE after
                        ELSE /\ pc' = after
                             /\ UNCHANGED <<results, count>>
    /\ row' = row + 1
    /\ UNCHANGED <<resolveVars, enumVars, sanitizeVars, byDefined, it_at, chats, mainVars>>

\* Lines 37-39: scroll the chat list further, then the next turn of the while
\* loop.
ScrollList ==
    /\ pc = "it_scroll"
    /\ \E script \in {"ok", "WebDriverException"} :
         IF script = "ok"
         THEN /\ it_at' = Min(it_at + 1, Len(pages))
              /\ pc' = "it_find_rows"
              /\ UNCHANGED exc
         ELSE /\ pc' = "it_raised"
              /\ exc' = script
              /\ UNCHANGED it_at
    /\ UNCHANGED <<resolveVars, enumVars, sanitizeVars, byDefined, chats, row, seen,
                   results, count, clicked, rejectsListLocator, parseVars, findVars,
                   debug, chat_arg, max_chats, chat_list, sessionVars, exitStatus,
                   interrupted, fatal, batchVars, passVars, saved>>

NextIterate ==
    \/ WaitForPanel
    \/ FindRows
    \/ IterateRow
    \/ ScrollList

\* The interpreter keeps running the call while it has a step to take.
SpecIterate == InitIterate /\ [][NextIterate]_vars /\ WF_vars(NextIterate)

---------------------------------------------------------------------------
(* main() and WhatsAppExtractor.run()                                      *)

\* Where an exception raised inside the try block of run() goes: a
\* KeyboardInterrupt passes the handler of line 561, everything else enters it.
RaiseInRun(e) ==
    /\ exc' = e
    /\ pc' = IF e = "KeyboardInterrupt" THEN "run_finally" ELSE "run_except"

Init ==
    /\ pc = "setup_driver"
    /\ rejectsListLocator \in BOOLEAN
    /\ debug \in BOOLEAN
    /\ \/ /\ chat_arg = TeamA
          /\ max_chats = NoMaxChats
          /\ chat_list = ChatList("found", "ok", << >>)
       \/ /\ chat_arg = EmptyStr
          /\ max_chats \in MaxChatsArgs
          /\ chat_list \in RunChatLists
    /\ ChecksIdle
    /\ RunIdle

\* setup_driver (lines 161-189): the session is created and stored at line
\* 185; line 186 runs a script in it.
SetupDriver ==
    /\ pc = "setup_driver"
    /\ \E outcome \in {"ok", "not_created", "script_fails"} :
         /\ driver' = IF outcome = "not_created" THEN "None" ELSE "open"
         /\ IF outcome = "ok"
            THEN pc' = "navigate" /\ UNCHANGED <<exc, fatal>>
            ELSE RaiseInRun("WebDriverException") /\ fatal' = TRUE
    /\ UNCHANGED <<unitVars, parseVars, findVars, argVars, quitCalls, confirmations, exitStatus,
                   interrupted, batchVars, passVars, saved>>

\* navigate_to_whatsapp (lines 234-269): driver.get may raise; the loops after
\* it swallow what they raise and give up after their bounds.
NavigateToWhatsapp ==
    /\ pc = "navigate"
    /\ \E outcome \in {"ok", "WebDriverException"} :
         IF outcome = "ok"
         THEN /\ pc' = IF chat_arg # EmptyStr THEN "extract_single" ELSE "extract_all"
              /\ UNCHANGED <<exc, fatal>>
         ELSE RaiseInRun(outcome) /\ fatal' = TRUE
    /\ UNCHANGED <<unitVars, parseVars, findVars, argVars, sessionVars, exitStatus, interrupted,
                   batchVars, passVars, saved>>

\* extract_single_chat, lines 462-479: open the chat, read its title back,
\* extract its messages.
ExtractSingleChat ==
    /\ pc = "extract_single"
    /\ \E o \in {OpenAndExtract(chat_arg, s, h, pane, rejectsListLocator) :
                    s \in RunSearches(chat_arg), h \in RunHeaders, pane \in RunPanes} :
         /\ passes' = Append(passes, Pass(chat_arg, o))
         /\ actual_chat_name' = o.title
         /\ messages' = o.messages
         /\ IF o.outcome = "error"
            THEN RaiseInRun(o.exc) /\ fatal' = (o.exc = "WebDriverException")
            ELSE /\ pc' = IF o.messages = << >> THEN "run_finally" ELSE "save_single"
                 /\ UNCHANGED <<exc, fatal>>
    /\ UNCHANGED <<unitVars, parseVars, findVars, argVars, sessionVars, exitStatus, interrupted,
                   batchVars, saved>>

\* extract_single_chat, lines 481-490: write the two files.
SaveSingle ==
    /\ pc = "save_single"
    /\ \E io \in {"ok", "OSError"} :
         IF io = "ok"
         THEN saved' = messages /\ pc' = "run_finally" /\ UNCHANGED exc
         ELSE RaiseInRun(io) /\ UNCHANGED saved
    /\ UNCHANGED <<unitVars, parseVars, findVars, argVars, sessionVars, exitStatus, interrupted,
                   fatal, batchVars, passVars>>

\* extract_all_chats, lines 496-509: enumerate, truncate.
EnumerateChats ==
    /\ pc = "extract_all"
    /\ LET names == get_all_visible_chats(chat_list)
       IN  IF names = << >>
           THEN pc' = "run_finally" /\ UNCHANGED chat_names
           ELSE pc' = "batch_loop" /\ chat_names' = Truncate(names, max_chats)
    /\ UNCHANGED <<unitVars, parseVars, findVars, argVars, sessionVars, exc, exitStatus,
                   interrupted, fatal, idx, all_messages, processed_chats, passVars,
                   saved>>

\* extract_all_chats, lines 511-532: one iteration of the loop.
ProcessChat ==
    /\ pc = "batch_loop"
    /\ idx <= Len(chat_names)
    /\ \E o \in {OpenAndExtract(chat_names[idx], s, h, pane, rejectsListLocator) :
                    s \in BatchSearches(chat_names[idx]), h \in BatchHeaders,
                    pane \in BatchPanes} :
         /\ passes' = Append(passes, Pass(chat_names[idx], o))
         /\ actual_chat_name' = o.title
         /\ messages' = o.messages
         /\ all_messages' = all_messages \o o.messages
         /\ processed_chats' = IF o.outcome = "extracted"
                               THEN processed_chats + 1 ELSE processed_chats
         /\ idx' = IF o.outcome = "error"
                   THEN NextAfterFailure(idx, chat_names) ELSE idx + 1
    /\ UNCHANGED <<pc, unitVars, parseVars, findVars, argVars, sessionVars, exc, exitStatus,
                   interrupted, fatal, chat_names, saved>>

\* extract_all_chats, lines 534-536: after the loop.
EndOfBatch ==
    /\ pc = "batch_loop"
    /\ idx > Len(chat_names)
    /\ pc' = IF all_messages = << >> THEN "run_finally" ELSE "save_all"
    /\ UNCHANGED <<unitVars, parseVars, findVars, argVars, sessionVars, exc, exitStatus,
                   interrupted, fatal, batchVars, passVars, saved>>

\* extract_all_chats, lines 538-548: write the two files.
SaveAll ==
    /\ pc = "save_all"
    /\ \E io \in {"ok", "OSError"} :
         IF io = "ok"
         THEN saved' = all_messages /\ pc' = "run_finally" /\ UNCHANGED exc
         ELSE RaiseInRun(io) /\ UNCHANGED saved
    /\ UNCHANGED <<unitVars, parseVars, findVars, argVars, sessionVars, exitStatus, interrupted,
                   fatal, batchVars, passVars>>

\* run(), lines 561-563: except Exception: print the error.
RunExcept ==
    /\ pc = "run_except"
    /\ exc' = "none"
    /\ pc' = IF debug THEN "run_debug_wait" ELSE "run_finally"
    /\ UNCHANGED <<unitVars, parseVars, findVars, argVars, sessionVars, exitStatus, interrupted,
                   fatal, batchVars, passVars, saved>>

\* run(), lines 564-565: input("Press Enter to close browser...") returns, or
\* raises EOFError when there is no input to read.
RunDebugWait ==
    /\ pc = "run_debug_wait"
    /\ \E answer \in {"enter", "EOFError"} :
         IF answer = "enter"
         THEN confirmations' = confirmations + 1 /\ UNCHANGED exc
         ELSE exc' = answer /\ UNCHANGED confirmations
    /\ pc' = "run_finally"
    /\ UNCHANGED <<unitVars, parseVars, findVars, argVars, driver, quitCalls, exitStatus,
                   interrupted, fatal, batchVars, passVars, saved>>

\* Where control goes when run() is left with exception e in flight: into
\* main()'s handlers, or past them.
AfterRun(e) ==
    IF e = "none" THEN "main_finally"
    ELSE IF e = "KeyboardInterrupt" THEN "main_except_interrupt"
    ELSE "main_except"

\* run(), lines 566-568: the finally block; an exception raised by quit()
\* replaces the one in flight.
RunFinally ==
    /\ pc = "run_finally"
    /\ IF RunFinallyQuits(driver, debug)
       THEN \E q \in {"ok", "WebDriverException"} :
              /\ quitCalls' = quitCalls + 1
              /\ exc' = IF q = "ok" THEN exc ELSE q
              /\ pc' = AfterRun(exc')
       ELSE /\ pc' = AfterRun(exc)
            /\ UNCHANGED <<quitCalls, exc>>
    /\ UNCHANGED <<unitVars, parseVars, findVars, argVars, driver, confirmations, exitStatus,
                   interrupted, fatal, batchVars, passVars, saved>>

\* main(), lines 592-593: except KeyboardInterrupt.
MainExceptInterrupt ==
    /\ pc = "main_except_interrupt"
    /\ exc' = "none"
    /\ pc' = "main_finally"
    /\ UNCHANGED <<unitVars, parseVars, findVars, argVars, sessionVars, exitStatus, interrupted,
                   fatal, batchVars, passVars, saved>>

\* main(), lines 594-596: except Exception.
MainExcept ==
    /\ pc = "main_except"
    /\ exc' = "none"
    /\ pc' = IF debug THEN "main_debug_wait" ELSE "main_finally"
    /\ UNCHANGED <<unitVars, parseVars, findVars, argVars, sessionVars, exitStatus, interrupted,
                   fatal, batchVars, passVars, saved>>

\* main(), lines 597-598: input("Press Enter to close browser...") returns, or
\* raises EOFError.
MainDebugWait ==
    /\ pc = "main_debug_wait"
    /\ \E answer \in {"enter", "EOFError"} :
         IF answer = "enter"
         THEN confirmations' = confirmations + 1 /\ UNCHANGED exc
         ELSE exc' = answer /\ UNCHANGED confirmations
    /\ pc' = "main_finally"
    /\ UNCHANGED <<unitVars, parseVars, findVars, argVars, driver, quitCalls, exitStatus,
                   interrupted, fatal, batchVars, passVars, saved>>

\* The exit status of the interpreter when main() is left with e in flight.
ExitStatus(e) ==
    IF e = "none" THEN 0 ELSE IF e = "KeyboardInterrupt" THEN 130 ELSE 1

\* main(), lines 599-605: the finally block, then the process ends.
MainFinally ==
    /\ pc = "main_finally"
    /\ IF MainFinallyQuits(debug, driver)
       THEN \E q \in {"ok", "WebDriverException"} :
              /\ quitCalls' = quitCalls + 1
              /\ exc' = IF q = "ok" THEN exc ELSE q
              /\ exitStatus' = ExitStatus(exc')
       ELSE /\ exitStatus' = ExitStatus(exc)
            /\ UNCHANGED <<quitCalls, exc>>
    /\ pc' = "exit"
    /\ UNCHANGED <<unitVars, parseVars, findVars, argVars, driver, confirmations, interrupted,
                   fatal, batchVars, passVars, saved>>

\* Positions inside the try block of run() and inside its handler.
InRunTry ==
    {"setup_driver", "navigate", "extract_single", "save_single", "extract_all",
     "batch_loop", "save_all", "run_except", "run_debug_wait"}

InMainHandlers == {"main_except_interrupt", "main_except", "main_debug_wait"}

\* The user presses Ctrl-C: KeyboardInterrupt is raised where the program
\* stands (lines 566 and 599: the finally blocks; 592: the only handler).
Interrupt ==
    /\ ~interrupted
    /\ pc \in InRunTry \cup InMainHandlers \cup {"run_finally", "main_finally"}
    /\ interrupted' = TRUE
    /\ exc' = "KeyboardInterrupt"
    /\ pc' = IF pc \in InRunTry THEN "run_finally"
             ELSE IF pc = "run_finally" THEN "main_except_interrupt"
             ELSE IF pc \in InMainHandlers THEN "main_finally"
             ELSE "exit"
    /\ exitStatus' = IF pc = "main_finally" THEN ExitStatus("KeyboardInterrupt")
                     ELSE exitStatus
    /\ UNCHANGED <<unitVars, parseVars, findVars, argVars, sessionVars, fatal, batchVars,
                   passVars, saved>>

Next ==
    \/ SetupDriver
    \/ NavigateToWhatsapp
    \/ ExtractSingleChat
    \/ SaveSingle
    \/ EnumerateChats
    \/ ProcessChat
    \/ EndOfBatch
    \/ SaveAll
    \/ RunExcept
    \/ RunDebugWait
    \/ RunFinally
    \/ MainExceptInterrupt
    \/ MainExcept
    \/ MainDebugWait
    \/ MainFinally
    \/ Interrupt

Spec == Init /\ [][Next]_vars

---------------------------------------------------------------------------
(* Claims about parse_message, checked under SpecParse                     *)

\* Every lookup on the container returns (nothing raises) and the driver
\* carries out the list-valued lookups.
AllLookupsReturn ==
    /\ ~rejectsListLocator
    /\ ~container.stale
    /\ container.media.kind = "ok"
    /\ container.meta.kind # "raise"
    /\ container.text.kind = "ok"
    /\ container.cls.kind = "value"
    /\ container.label.kind # "raise"

\* C1: parse_message treats sub-field failures independently: a failing media,
\* metadata, text or sender-label lookup leaves only that field at its default
\* (has_media false, timestamp '', text '', sender 'Unknown') and a record is
\* still returned; None is returned only when the container itself cannot be
\* accessed.
C1_SubFieldFailuresIndependent ==
    pc = "parse_done" =>
        /\ (parsed = None) <=> container.stale
        /\ parsed # None =>
             /\ (rejectsListLocator \/ container.media.kind = "raise")
                    => parsed.has_media = FALSE
             /\ (rejectsListLocator \/ container.meta.kind = "raise")
                    => parsed.timestamp = EmptyStr
             /\ (rejectsListLocator \/ container.text.kind = "raise")
                    => parsed.text = EmptyStr
             /\ (rejectsListLocator \/ container.label.kind = "raise")
                    => parsed.sender \in {Unknown, Me, ParseMetadata(container.meta)[2]}

\* C2: for every metadata string "[H:MM(:SS)? ampm?, MM/DD/YYYY] SenderName:"
\* parse_message yields sender = SenderName and timestamp = "<date> <time>",
\* the time carrying the am/pm marker when present.
C2_FormedMetadataParsed ==
    (pc = "parse_done" /\ AllLookupsReturn) =>
        \A t \in Times, a \in AmPm, d \in Dates, s \in Senders :
            container.meta = [kind |-> "value", val |-> MetadataString(t, a, d, s)]
                => /\ parsed # None
                   /\ parsed.sender = s
                   /\ parsed.timestamp = d \o <<" ">> \o t \o a
                   /\ parsed.text = MessageText(container.text)
                   /\ parsed.has_media = (container.media.n > 0)

---------------------------------------------------------------------------
(* Claims about find_chat_by_name, checked under SpecFind                  *)

\* The search itself completes: the search box is usable and every result's
\* text can be read.
SearchCompletes ==
    /\ search.box = "ok"
    /\ \A i \in 1..Len(search.results) : search.results[i].textExc = "ok"

\* The results whose text equals the target exactly.
ExactEntries ==
    {i \in 1..Len(search.results) :
        /\ search.results[i].textExc = "ok"
        /\ Strip(search.results[i].text) = chat_arg}

\* C3: whenever the results contain an entry equal to the target, that entry
\* and no other is opened, wherever it stands in the results: the first result
\* is never opened in its place, also when the click on the exact match fails.
\* (Stated for searches that return their results to the loop of line 288.)
C3_OnlyExactMatchOpened ==
    (pc = "find_done" /\ ~rejectsListLocator /\ SearchCompletes /\ ExactEntries # {}) =>
        /\ \A k \in 1..Len(found.clicked) : found.clicked[k] \in ExactEntries
        /\ found.opened # 0 => found.opened \in ExactEntries

\* C4: with results present and none equal to the target, the first result is
\* opened and True returned; with no results nothing is opened and False is
\* returned.
C4_FallbackToFirstResult ==
    (pc = "find_done" /\ SearchCompletes /\ ExactEntries = {}) =>
        IF search.results # << >>
        THEN search.results[1].click = "ok" =>
                /\ found.ret = "True"
                /\ found.opened = 1
                /\ found.clicked = <<1>>
        ELSE /\ found.ret = "False"
             /\ found.clicked = << >>

---------------------------------------------------------------------------
(* Claims about a run of main(), checked under Spec                        *)

\* The pass that gave record k of the accumulated records, counting from pass i.
RECURSIVE PassOfRecord(_, _)
PassOfRecord(k, i) ==
    IF i >= Len(passes) \/ k <= passes[i].n THEN i
    ELSE PassOfRecord(k - passes[i].n, i + 1)

RECURSIVE RecordsOfPasses(_)
RecordsOfPasses(i) == IF i = 0 THEN 0 ELSE passes[i].n + RecordsOfPasses(i - 1)

\* The records accumulated so far, in either mode.
Accumulated == IF chat_arg # EmptyStr THEN messages ELSE all_messages

\* C5: every record of the single-chat and batch paths carries as chat_name
\* the title read back from the chat open at extraction time, never the name
\* searched for when the two differ, and all records of one pass carry the
\* same chat_name.
C5_RecordsCarryResolvedTitle ==
    /\ Len(Accumulated) = RecordsOfPasses(Len(passes))
    /\ \A k \in 1..Len(Accumulated) :
         LET pass == passes[PassOfRecord(k, 1)]
         IN  /\ Accumulated[k].chat_name = pass.title
             /\ pass.title # pass.requested => Accumulated[k].chat_name # pass.requested
             /\ pass.title \in {pass.opened, UnknownChat, EmptyStr}
    /\ \A k \in 1..Len(messages) : messages[k].chat_name = actual_chat_name
    /\ saved \in {<< >>, Accumulated}

C5_Witness ==
    /\ saved # << >>
    /\ \E i \in 1..Len(passes) :
         /\ passes[i].n >= 2
         /\ passes[i].opened = Extended(passes[i].requested)
         /\ passes[i].title = passes[i].opened

\* C6: in batch mode a failure on one chat never aborts the batch: every name
\* of the (truncated) list is attempted exactly once, in list order, and the
\* records of the chats that succeeded before and after the failing one are all
\* in the final output.
C6_BatchSurvivesChatFailure ==
    chat_arg = EmptyStr =>
        /\ idx <= Len(chat_names) + 1
        /\ Len(passes) = idx - 1
        /\ \A i \in 1..Len(passes) : passes[i].requested = chat_names[i]
        /\ Len(all_messages) = RecordsOfPasses(Len(passes))
        /\ saved # << >> =>
             /\ Len(passes) = Len(chat_names)
             /\ saved = all_messages

C6_Witness ==
    /\ chat_arg = EmptyStr
    /\ Len(passes) = 3
    /\ passes[1].outcome = "extracted" /\ passes[1].n >= 1
    /\ passes[2].outcome = "error"
    /\ passes[3].outcome = "extracted" /\ passes[3].n >= 1
    /\ Len(saved) = passes[1].n + passes[3].n

\* C7: whenever a max-chats value is given (any integer, 0 included), the
\* number of chats opened and extracted in the run never exceeds it.  (Stated
\* for values from 0 up: no run can stay under a negative cap.)
C7_MaxChatsCapsBatch ==
    (max_chats.given /\ max_chats.n >= 0) => processed_chats <= max_chats.n

\* C8: with debug mode off, on every exit path of a run after the session was
\* created (completion, early return, exception, Ctrl-C at any step),
\* driver.quit() has been called when the process ends.
C8_SessionReleasedOnExit ==
    (pc = "exit" /\ ~debug /\ driver = "open") => quitCalls >= 1

C8_Witness ==
    /\ pc = "exit"
    /\ ~debug
    /\ driver = "open"
    /\ interrupted
    /\ quitCalls >= 1

\* C9: with debug mode on, the session is released only after the user's
\* confirmation: on completion and on error the run waits for it, does not
\* release before it, and releases after it.
C9_DebugReleaseAfterConfirmation ==
    (debug /\ ~interrupted) =>
        /\ quitCalls >= 1 => confirmations >= 1
        /\ (pc = "exit" /\ driver = "open") => (confirmations >= 1 /\ quitCalls >= 1)

\* C10: a fatal/session failure (the session cannot be created, or crashes in
\* navigation or extraction) ends the process with a non-zero status; a run
\* without one ends with status zero.
C10_FatalFailureExitsNonZero ==
    pc = "exit" =>
        /\ fatal => exitStatus # 0
        /\ (~fatal /\ ~interrupted /\ exc = "none") => exitStatus = 0

---------------------------------------------------------------------------
(* Claims about find_element_with_fallbacks, checked under SpecResolve     *)

\* The selectors whose lookup yields a match: it returns at least one element.
Matching == {i \in 1..Len(lookups) : lookups[i].exc = "ok" /\ lookups[i].elems # << >>}

\* The first of them in declared order (0: none).
FirstMatching == IF Matching = {} THEN 0 ELSE CHOOSE i \in Matching : \A j \in Matching : i <= j

\* C11: when expression i is the first, in declared order, that yields a match,
\* find_element_with_fallbacks returns the element expression i returns
\* directly (its first element), has evaluated expressions 1..i and none after
\* i, also when that first matched element is present but not displayed.
C11_FirstMatchShortCircuits ==
    (pc = "resolve_done" /\ FirstMatching # 0) =>
        /\ resolved.found
        /\ resolved.elem = lookups[FirstMatching].elems[1]
        /\ resolved.evaluated = FirstMatching

---------------------------------------------------------------------------
(* Claims about get_all_visible_chats, checked under SpecEnum              *)

\* All the rows the list renders, over its batches, top to bottom.
RECURSIVE RowsOfBatches(_)
RowsOfBatches(bs) == IF bs = << >> THEN << >> ELSE Head(bs) \o RowsOfBatches(Tail(bs))

\* C12: get_all_visible_chats returns every distinct chat name the list
\* renders across all of its scroll batches, each once, in first-seen order;
\* an empty list gives an empty sequence.
C12_EveryRenderedNameOnce ==
    (pc = "enum_done" /\ chat_list.scroll = "ok") =>
        enumerated = CollectNames(RowsOfBatches(pages), << >>)

\* The scroll-to-the-bottom operations among the scripts run.
ScrollToBottom == "arguments[0].scrollTop = arguments[0].scrollHeight"
ScrollsToBottom == Cardinality({i \in 1..Len(scripts) : scripts[i] = ScrollToBottom})

\* The ceiling on scroll attempts.
max_scrolls == 5

\* C13: the enumeration scrolls the container to the bottom until a scroll
\* produces no growth or the ceiling is reached: a list that grows on scrolls
\* 1..n-1 and not on scroll n is scrolled exactly n times (3 times when it
\* grows on the 1st and 2nd scroll and not on the 3rd).
C13_ScrollsUntilNoGrowth ==
    (pc = "enum_done" /\ chat_list.container = "found" /\ chat_list.scroll = "ok"
        /\ pages # << >>) =>
        ScrollsToBottom = Min(Len(pages), max_scrolls)

---------------------------------------------------------------------------
(* Further claims about a run of main(), checked under Spec                *)

\* C14: every record emitted has a non-empty chat_name and a non-empty sender,
\* for every outcome of the title lookup (a title element with blank text
\* included) and of the sender-label lookup (a label with blank text included).
C14_NamesNeverEmpty ==
    \A k \in 1..Len(Accumulated) :
        /\ Accumulated[k].chat_name # EmptyStr
        /\ Accumulated[k].sender # EmptyStr

\* C19: over main() and run() together the session is released at most once,
\* and nothing is called on it after its release, on every exit path, in debug
\* mode and out of it.
C19_ReleasedAtMostOnce == quitCalls <= 1

---------------------------------------------------------------------------
(* Further claims about find_chat_by_name, checked under SpecFind          *)

\* C16: find_chat_by_name never lets a failure escape as an exception:
\* whatever fails in the search (element missing, timeout, click intercepted,
\* stale element, invalid locator), the caller receives True or False.
C16_NoExceptionEscapes ==
    pc = "find_done" => found.ret \in {"True", "False"}

---------------------------------------------------------------------------
(* Further claims about parse_message, checked under SpecParse             *)

\* The container carries the outgoing marker class.
HasOutgoingMarker == container.cls.kind = "value" /\ "message-out" \in container.cls.classes

\* C17: a container that can be accessed gives a record whose sender is the
\* one parsed from the metadata when there is one; otherwise "Me" with the
\* outgoing marker class, else the sender-label text when a label is found,
\* else "Unknown".
C17_SenderByDirection ==
    (pc = "parse_done" /\ ~container.stale) =>
        /\ parsed # None
        /\ LET sender == ParseMetadata(container.meta)[2]
           IN  parsed.sender =
                   IF sender # EmptyStr THEN sender
                   ELSE IF HasOutgoingMarker THEN Me
                   ELSE IF container.label.kind = "value" THEN Strip(container.label.val)
                   ELSE Unknown

---------------------------------------------------------------------------
(* Claims about sanitize_filename, checked under SpecSanitize              *)

\* The nine filesystem-unsafe characters < > : " / \ | ? *
NineUnsafe == {"<", ">", ":", "\"", "/", "\\", "|", "?", "*"}

\* C15: sanitize_filename replaces every occurrence of each of the nine
\* unsafe characters by '_' and leaves every other character unchanged: the
\* result has the length of the input, holds none of the nine, and
\* sanitize_filename applied to the result returns it unchanged.
C15_SanitizeReplacesUnsafe ==
    pc = "sanitize_done" =>
        /\ Len(sanitized) = Len(filename)
        /\ \A i \in 1..Len(filename) :
             sanitized[i] = IF filename[i] \in NineUnsafe THEN "_" ELSE filename[i]
        /\ \A i \in 1..Len(sanitized) : sanitized[i] \notin NineUnsafe
        /\ sanitize_filename(sanitized) = sanitized

C15_Witness ==
    /\ pc = "sanitize_done"
    /\ Len(filename) = 3
    /\ filename[1] = "\\"
    /\ filename[2] = "a"
    /\ filename[3] \in NineUnsafe
    /\ sanitized = <<"_", "a", "_">>

---------------------------------------------------------------------------
(* Claims about iterate_chats, checked under SpecIterate                   *)

\* C18: iterate_chats terminates on every finite chat list: once every row's
\* title has been seen (or max_chats is reached) the scroll loop exits and the
\* accumulated results are returned, also when the list keeps rendering the
\* same non-empty rows after each scroll.
C18_IterateChatsReturns == <>(pc = "it_returned")
=============================================================================
